---- MODULE Spec2Model ----
(***************************************************************************)
(* A model of trivial-argument-parser: the owned descriptors (Argument),   *)
(* the generic descriptors (ParsableValueArgument), the registry           *)
(* (ArgumentList) and its tokenization/dispatch loop (parse_args).         *)
(*                                                                         *)
(* A token (a Rust String) is a sequence of characters; a character is a   *)
(* one-letter string.  Option<T> is a sequence of length at most one.      *)
(***************************************************************************)
EXTENDS Integers, Sequences, FiniteSets, TLC

\* ------------------------------------------------------------------ bounds
\* longest input (number of tokens) built from the tokens of Tokens
MaxInput == 3
\* longest token (number of characters) of the one-token inputs of every shape
MaxTokenLen == 3
\* longest input of a caller that uses one binding style only
MaxLongInput == 4

\* longest input of a caller that reads the owned descriptors through the accessors
MaxAccessInput == 2

\* most descriptors a caller constructs with Argument::new
MaxConstructed == 2

\* longest token of the exhaustive part of the tokens handed to the validator-based
\* descriptor
MaxValidatedTokenLen == 4

\* most tokens handed to parse_args in all the calls on one registry together
MaxTotalInput == 3

\* most values one generic descriptor is made to hold by direct handle calls
MaxHandled == 2
\* longest token of the exhaustive part of the tokens handed to the integer handler
MaxIntTokenLen == 2

\* ------------------------------------------------------- characters, tokens
Alphabetic == {"a", "b"}
Digits == {"0", "1", "2", "3", "4", "5", "6", "7", "8", "9"}
\* the characters the inputs are written with
Chars == {"-", "a", "b", "1"}

\* char::is_alphabetic, char::is_digit(10)
is_alphabetic(c) == c \in Alphabetic
is_digit(c) == c \in Digits

None == <<>>
Some(x) == <<x>>

\* the tokens the multi-token inputs are built from:  -a  -b  --ab  1  --
Tokens ==
  { <<"-", "a">>, <<"-", "b">>, <<"-", "-", "a", "b">>, <<"1">>, <<"-", "-">> }

SeqsUpTo(S, n) == UNION { [1..k -> S] : k \in 0..n }

\* every token of at most MaxTokenLen characters
AllTokens == SeqsUpTo(Chars, MaxTokenLen)

\* the inputs handed to parse_args
Inputs == SeqsUpTo(Tokens, MaxInput) \cup { <<t>> : t \in AllTokens }

\* the longer inputs, without the token "--"
LongInputs == SeqsUpTo(Tokens \ { <<"-", "-">> }, MaxLongInput)

\* ------------------------------------------------------------ Result<_, String>
Ok == [tag |-> "Ok", msg |-> "", word |-> <<>>]
Err(m) == [tag |-> "Err", msg |-> m, word |-> <<>>]
\* format!("Could not find argument identified by {}.", word)
ErrWord(m, w) == [tag |-> "Err", msg |-> m, word |-> w]
NoReturn == [tag |-> "Running", msg |-> "", word |-> <<>>]

\* ------------------------------------------------------------------ ArgResult
ResFlag == [tag |-> "Flag", value |-> <<>>, list |-> <<>>]
\* a seeded fault of the Value arm of add_value: the word is stored as a list
ResValue_as_list(w) == [tag |-> "ValueList", value |-> <<>>, list |-> <<w>>]

ResValue(w) == [tag |-> "Value", value |-> w, list |-> <<>>]
ResValueList(l) == [tag |-> "ValueList", value |-> <<>>, list |-> l]

ArgType == {"Flag", "Value", "ValueList"}

\* ------------------------------------------------------------------- Argument
\* a seeded fault of Argument::new: the short name is required
Argument_new_short_required(short, long, arg_type) ==
  IF short = None
  THEN [res |-> Err("At least one name of argument must be specified (short or long or both)"),
        arg |-> None]
  ELSE [res |-> Ok,
        arg |-> Some([short |-> short, long |-> long, arg_type |-> arg_type,
                      arg_result |-> None])]

\* Argument::new: fails iff both names are absent
Argument_new(short, long, arg_type) ==
  IF short = None /\ long = None
  THEN [res |-> Err("At least one name of argument must be specified (short or long or both)"),
        arg |-> None]
  ELSE [res |-> Ok,
        arg |-> Some([short |-> short, long |-> long, arg_type |-> arg_type,
                      arg_result |-> None])]

\* the cursor: input_iter.next() on the token sequence inp at position it
\* (it = number of tokens already taken)
HasNext(inp, it) == it < Len(inp)

\* a seeded fault of add_value: a repeated Value overwrites the earlier binding
add_value_overwrite(arg, inp, it) ==
  CASE arg.arg_type = "Flag" ->
         IF arg.arg_result # None
         THEN [arg |-> arg, it |-> it, res |-> Err("Flag already set")]
         ELSE [arg |-> [arg EXCEPT !.arg_result = Some(ResFlag)], it |-> it, res |-> Ok]
    [] arg.arg_type = "Value" ->
         IF HasNext(inp, it)
         THEN [arg |-> [arg EXCEPT !.arg_result = Some(ResValue(inp[it + 1]))],
               it |-> it + 1, res |-> Ok]
         ELSE [arg |-> arg, it |-> it, res |-> Err("Expected value")]
    [] arg.arg_type = "ValueList" ->
         LET a1 == IF arg.arg_result = None
                   THEN [arg EXCEPT !.arg_result = Some(ResValueList(<<>>))]
                   ELSE arg
         IN IF HasNext(inp, it)
            THEN [arg |-> [a1 EXCEPT !.arg_result =
                             Some(ResValueList(Append(a1.arg_result[1].list, inp[it + 1])))],
                  it |-> it + 1, res |-> Ok]
            ELSE [arg |-> a1, it |-> it, res |-> Err("Expected value")]

\* a seeded fault of add_value: the list is created anew at every occurrence
add_value_list_reset(arg, inp, it) ==
  CASE arg.arg_type = "Flag" ->
         IF arg.arg_result # None
         THEN [arg |-> arg, it |-> it, res |-> Err("Flag already set")]
         ELSE [arg |-> [arg EXCEPT !.arg_result = Some(ResFlag)], it |-> it, res |-> Ok]
    [] arg.arg_type = "Value" ->
         IF arg.arg_result # None
         THEN [arg |-> arg, it |-> it, res |-> Err("Value already assigned")]
         ELSE IF HasNext(inp, it)
              THEN [arg |-> [arg EXCEPT !.arg_result = Some(ResValue(inp[it + 1]))],
                    it |-> it + 1, res |-> Ok]
              ELSE [arg |-> arg, it |-> it, res |-> Err("Expected value")]
    [] arg.arg_type = "ValueList" ->
         LET a1 == [arg EXCEPT !.arg_result = Some(ResValueList(<<>>))]
         IN IF HasNext(inp, it)
            THEN [arg |-> [a1 EXCEPT !.arg_result = Some(ResValueList(<<inp[it + 1]>>))],
                  it |-> it + 1, res |-> Ok]
            ELSE [arg |-> a1, it |-> it, res |-> Err("Expected value")]

\* a seeded fault of add_value: an exhausted cursor is not an error
add_value_lenient(arg, inp, it) ==
  CASE arg.arg_type = "Flag" ->
         IF arg.arg_result # None
         THEN [arg |-> arg, it |-> it, res |-> Err("Flag already set")]
         ELSE [arg |-> [arg EXCEPT !.arg_result = Some(ResFlag)], it |-> it, res |-> Ok]
    [] arg.arg_type = "Value" ->
         IF arg.arg_result # None
         THEN [arg |-> arg, it |-> it, res |-> Err("Value already assigned")]
         ELSE IF HasNext(inp, it)
              THEN [arg |-> [arg EXCEPT !.arg_result = Some(ResValue(inp[it + 1]))],
                    it |-> it + 1, res |-> Ok]
              ELSE [arg |-> arg, it |-> it, res |-> Ok]
    [] arg.arg_type = "ValueList" ->
         LET a1 == IF arg.arg_result = None
                   THEN [arg EXCEPT !.arg_result = Some(ResValueList(<<>>))]
                   ELSE arg
         IN IF HasNext(inp, it)
            THEN [arg |-> [a1 EXCEPT !.arg_result =
                             Some(ResValueList(Append(a1.arg_result[1].list, inp[it + 1])))],
                  it |-> it + 1, res |-> Ok]
            ELSE [arg |-> a1, it |-> it, res |-> Ok]

\* a seeded fault of add_value: a word that starts with "-" is not taken as the
\* value of the option before it
add_value_stops_at_option(arg, inp, it) ==
  LET more == HasNext(inp, it) /\ inp[it + 1][1] # "-"
  IN CASE arg.arg_type = "Flag" ->
            IF arg.arg_result # None
            THEN [arg |-> arg, it |-> it, res |-> Err("Flag already set")]
            ELSE [arg |-> [arg EXCEPT !.arg_result = Some(ResFlag)], it |-> it, res |-> Ok]
       [] arg.arg_type = "Value" ->
            IF arg.arg_result # None
            THEN [arg |-> arg, it |-> it, res |-> Err("Value already assigned")]
            ELSE IF more
                 THEN [arg |-> [arg EXCEPT !.arg_result = Some(ResValue(inp[it + 1]))],
                       it |-> it + 1, res |-> Ok]
                 ELSE [arg |-> arg, it |-> it, res |-> Err("Expected value")]
       [] arg.arg_type = "ValueList" ->
            LET a1 == IF arg.arg_result = None
                      THEN [arg EXCEPT !.arg_result = Some(ResValueList(<<>>))]
                      ELSE arg
            IN IF more
               THEN [arg |-> [a1 EXCEPT !.arg_result =
                                Some(ResValueList(Append(a1.arg_result[1].list, inp[it + 1])))],
                     it |-> it + 1, res |-> Ok]
               ELSE [arg |-> a1, it |-> it, res |-> Err("Expected value")]

\* Argument::add_value
add_value(arg, inp, it) ==
  CASE arg.arg_type = "Flag" ->
         IF arg.arg_result # None
         THEN [arg |-> arg, it |-> it, res |-> Err("Flag already set")]
         ELSE [arg |-> [arg EXCEPT !.arg_result = Some(ResFlag)], it |-> it, res |-> Ok]
    [] arg.arg_type = "Value" ->
         IF arg.arg_result # None
         THEN [arg |-> arg, it |-> it, res |-> Err("Value already assigned")]
         ELSE IF HasNext(inp, it)
              THEN [arg |-> [arg EXCEPT !.arg_result = Some(ResValue(inp[it + 1]))],
                    it |-> it + 1, res |-> Ok]
              ELSE [arg |-> arg, it |-> it, res |-> Err("Expected value")]
    [] arg.arg_type = "ValueList" ->
         \* the empty list is stored before the value is requested
         LET a1 == IF arg.arg_result = None
                   THEN [arg EXCEPT !.arg_result = Some(ResValueList(<<>>))]
                   ELSE arg
         IN IF HasNext(inp, it)
            THEN IF a1.arg_result[1].tag = "ValueList"
                 THEN [arg |-> [a1 EXCEPT !.arg_result =
                                  Some(ResValueList(Append(a1.arg_result[1].list, inp[it + 1])))],
                       it |-> it + 1, res |-> Ok]
                 ELSE [arg |-> a1, it |-> it, res |-> Err("WTF")]
            ELSE [arg |-> a1, it |-> it, res |-> Err("Expected value")]

\* ------------------------------------------------------------------ accessors
\* what an accessor returns: the Result, and the &str, the &Vec<String> or the
\* bool it carries when it is Ok
Returned(res, value, list, flag) ==
  [res |-> res, value |-> value, list |-> list, flag |-> flag]

\* a seeded fault of get_flag: an unset flag is an error
get_flag_unset_fails(arg) ==
  IF arg.arg_type = "Flag"
  THEN IF arg.arg_result # None
       THEN Returned(Ok, <<>>, <<>>, TRUE)
       ELSE Returned(Err("Flag not set"), <<>>, <<>>, FALSE)
  ELSE Returned(Err("Argument is not an flag type"), <<>>, <<>>, FALSE)

\* Argument::get_flag
get_flag(arg) ==
  IF arg.arg_type = "Flag"
  THEN Returned(Ok, <<>>, <<>>, arg.arg_result # None)
  ELSE Returned(Err("Argument is not an flag type"), <<>>, <<>>, FALSE)

\* Argument::get_value
get_value(arg) ==
  IF arg.arg_type = "Value"
  THEN IF arg.arg_result # None
       THEN IF arg.arg_result[1].tag = "Value"
            THEN Returned(Ok, arg.arg_result[1].value, <<>>, FALSE)
            ELSE Returned(Err("Wrong type of result. Something really bad has happened"),
                          <<>>, <<>>, FALSE)
       ELSE Returned(Err("No value assigned to result"), <<>>, <<>>, FALSE)
  ELSE Returned(Err("This argument is not an value"), <<>>, <<>>, FALSE)

\* Argument::get_values
get_values(arg) ==
  IF arg.arg_type = "ValueList"
  THEN IF arg.arg_result # None
       THEN IF arg.arg_result[1].tag = "ValueList"
            THEN Returned(Ok, <<>>, arg.arg_result[1].list, FALSE)
            ELSE Returned(Err("Wrong type of result. Something really bad happened"),
                          <<>>, <<>>, FALSE)
       ELSE Returned(Err("No result specified"), <<>>, <<>>, FALSE)
  ELSE Returned(Err("This argument is not an value list"), <<>>, <<>>, FALSE)

\* ------------------------------------------------------ ArgumentIdentification
IdShort(c) == [kind |-> "Short", c |-> c, s |-> <<>>]
IdLong(s) == [kind |-> "Long", c |-> "", s |-> s]
IdBoth(c, s) == [kind |-> "Both", c |-> c, s |-> s]

is_by_short(id, name) ==
  IF id.kind = "Short" THEN id.c = name
  ELSE IF id.kind = "Both" THEN id.c = name
  ELSE FALSE

is_by_long(id, name) ==
  IF id.kind = "Long" THEN id.s = name
  ELSE IF id.kind = "Both" THEN id.s = name
  ELSE FALSE


\* ------------------------------------------------ the default integer handler
DigitValue(c) ==
  CASE c = "0" -> 0 [] c = "1" -> 1 [] c = "2" -> 2 [] c = "3" -> 3 [] c = "4" -> 4
    [] c = "5" -> 5 [] c = "6" -> 6 [] c = "7" -> 7 [] c = "8" -> 8 [] c = "9" -> 9

\* ParsableValueArgument::validate_integer: TRUE iff it returns None (no error)
validate_integer(v) ==
  /\ Len(v) > 0 =>
       ~ ((v[1] # "-" \/ Len(v) = 1) /\ ~ is_digit(v[1]))
  /\ \A i \in 2..Len(v) : is_digit(v[i])

\* the decimal digits of i64::MAX and of -i64::MIN
I64MaxDigits ==
  <<"9","2","2","3","3","7","2","0","3","6","8","5","4","7","7","5","8","0","7">>
I64MinDigits ==
  <<"9","2","2","3","3","7","2","0","3","6","8","5","4","7","7","5","8","0","8">>

RECURSIVE StripZeros(_)
StripZeros(ds) ==
  IF Len(ds) > 0 /\ ds[1] = "0" THEN StripZeros(Tail(ds)) ELSE ds

\* ds <= lim, both digit strings of the same length
RECURSIVE DigitsLeq(_, _)
DigitsLeq(ds, lim) ==
  IF Len(ds) = 0 THEN TRUE
  ELSE IF DigitValue(ds[1]) < DigitValue(lim[1]) THEN TRUE
  ELSE IF DigitValue(ds[1]) > DigitValue(lim[1]) THEN FALSE
  ELSE DigitsLeq(Tail(ds), Tail(lim))

\* a seeded fault of the overflow check: any digit string as long as the limit fits
FitsI64_by_length(ds, lim) ==
  LET d == StripZeros(ds)
  IN Len(d) <= Len(lim)

FitsI64(ds, lim) ==
  LET d == StripZeros(ds)
  IN Len(d) < Len(lim) \/ (Len(d) = Len(lim) /\ DigitsLeq(d, lim))

RECURSIVE Magnitude(_)
Magnitude(ds) ==
  IF Len(ds) = 0 THEN 0
  ELSE 10 * Magnitude(SubSeq(ds, 1, Len(ds) - 1)) + DigitValue(ds[Len(ds)])

\* an i64 value: its sign and the decimal digits of its magnitude without
\* leading zeros (no digits: zero), so that values up to 19 digits are exact
I64(neg, ds) == [neg |-> neg /\ StripZeros(ds) # <<>>, mag |-> StripZeros(ds)]

\* str::parse::<i64> on a token that passed validate_integer
parse_i64(v) ==
  IF Len(v) = 0 THEN [res |-> Err("cannot parse integer from empty string"), v |-> 0]
  ELSE IF v[1] = "-"
  THEN IF FitsI64(Tail(v), I64MinDigits)
       THEN [res |-> Ok, v |-> I64(TRUE, Tail(v))]
       ELSE [res |-> Err("number too small to fit in target type"), v |-> 0]
  ELSE IF FitsI64(v, I64MaxDigits)
       THEN [res |-> Ok, v |-> I64(FALSE, v)]
       ELSE [res |-> Err("number too large to fit in target type"), v |-> 0]

\* the closure of ParsableValueArgument::new_integer
handler_integer(inp, it) ==
  IF HasNext(inp, it)
  THEN LET v == inp[it + 1]
       IN IF ~ validate_integer(v)
          THEN [it |-> it + 1, res |-> Err("Input is not a number"), v |-> 0]
          ELSE [it |-> it + 1, res |-> parse_i64(v).res, v |-> parse_i64(v).v]
  ELSE [it |-> it, res |-> Err("No remaining input values."), v |-> 0]

\* a seeded fault of the string handler: the token is looked at (peek) and left
\* on the cursor
handler_string_peek(inp, it) ==
  IF HasNext(inp, it)
  THEN [it |-> it, res |-> Ok, v |-> inp[it + 1]]
  ELSE [it |-> it, res |-> Err("No remaining input values."), v |-> <<>>]

\* the closure of ParsableValueArgument::new_string
handler_string(inp, it) ==
  IF HasNext(inp, it)
  THEN [it |-> it + 1, res |-> Ok, v |-> inp[it + 1]]
  ELSE [it |-> it, res |-> Err("No remaining input values."), v |-> <<>>]

\* (self.handler)(input_iter, &mut self.values)
call_handler(obj, inp, it) ==
  IF obj.handler = "integer" THEN handler_integer(inp, it) ELSE handler_string(inp, it)

\* a seeded fault of handle: the value list is replaced, not extended
handle_replace(obj, inp, it) ==
  LET r == call_handler(obj, inp, it)
  IN IF r.res.tag = "Err"
     THEN [obj |-> obj, it |-> r.it, res |-> r.res]
     ELSE [obj |-> [obj EXCEPT !.values = <<r.v>>], it |-> r.it, res |-> Ok]

\* a seeded fault of handle: a failed handler still leaves an element behind
handle_push_on_error(obj, inp, it) ==
  LET r == call_handler(obj, inp, it)
  IN [obj |-> [obj EXCEPT !.values = Append(@, r.v)], it |-> r.it, res |-> r.res]

\* HandleableArgument::handle for ParsableValueArgument
handle(obj, inp, it) ==
  LET r == call_handler(obj, inp, it)
  IN IF r.res.tag = "Err"
     THEN [obj |-> obj, it |-> r.it, res |-> r.res]
     ELSE [obj |-> [obj EXCEPT !.values = Append(@, r.v)], it |-> r.it, res |-> Ok]


\* ----------------------------------------------------------------- the state
VARIABLES
  arguments,           \* ArgumentList.arguments: the owned descriptors
  parsable_arguments,  \* ArgumentList.parsable_arguments: borrowed handles (object names)
  dangling_values,     \* ArgumentList.dangling_values
  parsables,           \* the caller's ParsableValueArgument objects, by name
  input,               \* parse_args: the input vector
  input_iter,          \* parse_args: the cursor, as the number of tokens taken from input
  pc,                  \* "idle": parse_args not called yet; "loop": at the top of its loop;
                       \* "returned": parse_args has returned; "dropped": the registry
                       \* is gone (its fields keep what it last held)
  result,              \* what the last call of parse_args (or of handle, or of
                       \* Argument::new, when called directly) returned
  dispatch,            \* what each loop iteration did: the token it read and the
                       \* descriptor it dispatched to
  read,                \* the caller's last accessor call and what it returned: fn on
                       \* the owned descriptor arguments[idx] or on the caller's object obj
  spent                \* the number of tokens handed to parse_args so far, in all calls

vars == <<arguments, parsable_arguments, dangling_values, parsables, input, input_iter,
          pc, result, dispatch, read, spent>>

\* no accessor called yet
NoRead == [fn |-> "none", idx |-> 0, obj |-> "", ret |-> Returned(NoReturn, <<>>, <<>>, FALSE)]

\* the name "ab"
LongAb == <<"a", "b">>

\* the owned descriptors the caller constructs: (short, long, arg_type)
OwnedDefs ==
  { <<Some("a"), None, "Flag">>,
    <<None, Some(LongAb), "Value">>,
    <<Some("b"), Some(LongAb), "ValueList">> }

\* the generic descriptors the caller constructs
ParsableObjects == {"argument_int", "argument_str"}

\* ParsableValueArgument::new (through new_integer / new_string)
ParsableValueArgument_new(o) ==
  IF o = "argument_int"
  THEN [identification |-> IdBoth("b", LongAb), handler |-> "integer", values |-> <<>>]
  ELSE [identification |-> IdLong(LongAb), handler |-> "string", values |-> <<>>]

\* ArgumentList::new, and the caller's generic descriptors freshly constructed
Init ==
  /\ arguments = <<>>
  /\ parsable_arguments = <<>>
  /\ dangling_values = <<>>
  /\ parsables = [o \in ParsableObjects |-> ParsableValueArgument_new(o)]
  /\ input = <<>>
  /\ input_iter = 0
  /\ pc = "idle"
  /\ result = NoReturn
  /\ dispatch = <<>>
  /\ read = NoRead
  /\ spent = 0

\* the first index of s that satisfies P, or 0
FirstIndex(s, P(_)) ==
  IF \E i \in 1..Len(s) : P(s[i])
  THEN CHOOSE i \in 1..Len(s) : P(s[i]) /\ \A j \in 1..(i - 1) : ~ P(s[j])
  ELSE 0

\* the last index of s that satisfies P, or 0
LastIndex(s, P(_)) ==
  IF \E i \in 1..Len(s) : P(s[i])
  THEN CHOOSE i \in 1..Len(s) : P(s[i]) /\ \A j \in (i + 1)..Len(s) : ~ P(s[j])
  ELSE 0

\* ArgumentList::search_by_short_name: the index of the descriptor found, or 0
search_by_short_name(args, name) ==
  LET Match(x) == x.short # None /\ x.short[1] = name
  IN FirstIndex(args, Match)

\* a seeded fault of search_by_long_name: a descriptor that is already bound is
\* passed over
search_by_long_name_unbound(args, name) ==
  LET Match(x) == x.long # None /\ x.long[1] = name /\ x.arg_result = None
  IN FirstIndex(args, Match)

\* ArgumentList::search_by_long_name: the index of the descriptor found, or 0
search_by_long_name(args, name) ==
  LET Match(x) == x.long # None /\ x.long[1] = name
  IN FirstIndex(args, Match)

\* the handle registered first that answers to the name, or 0
\* (the for loop of handle_parsable_short_name / handle_parsable_long_name)
first_by_short(pa, objs, name) ==
  LET Match(o) == is_by_short(objs[o].identification, name)
  IN FirstIndex(pa, Match)

\* a seeded fault of handle_parsable_long_name: the handle registered last wins
last_by_long(pa, objs, name) ==
  LET Match(o) == is_by_long(objs[o].identification, name)
  IN LastIndex(pa, Match)

first_by_long(pa, objs, name) ==
  LET Match(o) == is_by_long(objs[o].identification, name)
  IN FirstIndex(pa, Match)

\* a seeded fault of handle_parsable_*: Ok(true) also when no handle answered
handle_parsable_always_found(pa, objs, k, inp, it) ==
  IF k = 0
  THEN [objs |-> objs, it |-> it, res |-> Ok, found |-> TRUE, who |-> 0]
  ELSE LET h == handle(objs[pa[k]], inp, it)
       IN [objs |-> [objs EXCEPT ![pa[k]] = h.obj], it |-> h.it, res |-> h.res,
           found |-> h.res.tag = "Ok", who |-> k]

\* the body shared by handle_parsable_short_name and handle_parsable_long_name,
\* once the first matching handle k (0: none) is known
handle_parsable(pa, objs, k, inp, it) ==
  IF k = 0
  THEN [objs |-> objs, it |-> it, res |-> Ok, found |-> FALSE, who |-> 0]
  ELSE LET h == handle(objs[pa[k]], inp, it)
       IN [objs |-> [objs EXCEPT ![pa[k]] = h.obj], it |-> h.it, res |-> h.res,
           found |-> h.res.tag = "Ok", who |-> k]

\* ArgumentList::handle_parsable_short_name
handle_parsable_short_name(pa, objs, name, inp, it) ==
  handle_parsable(pa, objs, first_by_short(pa, objs, name), inp, it)

\* ArgumentList::handle_parsable_long_name
handle_parsable_long_name(pa, objs, name, inp, it) ==
  handle_parsable(pa, objs, first_by_long(pa, objs, name), inp, it)

\* a seeded fault of the classification: any word that starts like a short option
is_short_option_prefix(word) ==
  Len(word) >= 2 /\ word[1] = "-" /\ is_alphabetic(word[2])

\* the classification of the word read at the top of the loop
is_short_option(word) ==
  Len(word) = 2 /\ word[1] = "-" /\ is_alphabetic(word[2])

is_long_option(word) ==
  Len(word) > 2 /\ word[1] = "-" /\ word[2] = "-" /\ is_alphabetic(word[3])

\* a seeded fault of the slice: &word[1..word.len()]
long_name_keep_dash(word) == SubSeq(word, 2, Len(word))

\* &word[2..word.len()]
long_name(word) == SubSeq(word, 3, Len(word))

\* ------------------------------------------------------------------ actions
\* args_list.append_arg(Argument::new(short, long, arg_type).unwrap())
append_arg(d) ==
  /\ pc = "idle"
  /\ \A i \in 1..Len(arguments) :
       <<arguments[i].short, arguments[i].long, arguments[i].arg_type>> # d
  /\ Argument_new(d[1], d[2], d[3]).res.tag = "Ok"
  /\ arguments' = Append(arguments, Argument_new(d[1], d[2], d[3]).arg[1])
  /\ UNCHANGED <<spent, read, parsable_arguments, dangling_values, parsables, input, input_iter,
                 pc, result, dispatch>>

\* args_list.register_parsable(&mut o)
register_parsable(o) ==
  /\ pc = "idle"
  /\ \A i \in 1..Len(parsable_arguments) : parsable_arguments[i] # o
  /\ parsable_arguments' = Append(parsable_arguments, o)
  /\ UNCHANGED <<spent, read, arguments, dangling_values, parsables, input, input_iter,
                 pc, result, dispatch>>

\* args_list.parse_args(inp): up to the first evaluation of the loop condition
parse_args(inp) ==
  /\ pc = "idle"
  /\ input' = inp
  /\ input_iter' = 0
  /\ pc' = "loop"
  /\ spent' = spent + Len(inp)
  /\ UNCHANGED <<read, arguments, parsable_arguments, dangling_values, parsables, result,
                 dispatch>>

\* the word the next iteration reads
Word == input[input_iter + 1]

\* the record of one loop iteration: the position of the word read, how it was
\* classified, the name looked up, and the descriptor the word was dispatched to
\* ("owned": arguments[idx]; "generic": the handle parsable_arguments[idx], whose
\* handler was invoked; "none": no descriptor answered)
Event(kind, name, tier, idx) ==
  [at |-> input_iter + 1, kind |-> kind, name |-> name, tier |-> tier, idx |-> idx]

\* "Error while parsing arguments: <detail>"
Prefixed(m) ==
  CASE m = "Flag already set" -> "Error while parsing arguments: Flag already set"
    [] m = "Value already assigned" -> "Error while parsing arguments: Value already assigned"
    [] m = "Expected value" -> "Error while parsing arguments: Expected value"
    [] OTHER -> "Error while parsing arguments: ..."

\* a seeded fault of the propagation: the error is wrapped in a prefixed message
try_propagate_prefixed(res) == Err(Prefixed(res.msg))

\* a seeded fault of the propagation: the error is dropped and Ok(()) returned
try_propagate_swallowed(res) == Ok

\* the ? operator on an Err(String) in a function that returns Result<(), String>:
\* the error is returned as it is (From<String> for String)
try_propagate(res) == res

\* the match of parse_args on an option word with the given name: the owned
\* descriptor arguments[k] if the search found one (k > 0), otherwise the outcome g
\* of handle_parsable_short_name / handle_parsable_long_name, otherwise the
\* unknown-option error
Dispatched(kind, name, k, g) ==
  IF k > 0
  THEN LET r == add_value(arguments[k], input, input_iter + 1)
       IN /\ arguments' = [arguments EXCEPT ![k] = r.arg]
          /\ input_iter' = r.it
          /\ parsables' = parsables
          /\ dispatch' = Append(dispatch, Event(kind, name, "owned", k))
          /\ IF r.res.tag = "Err"
             THEN pc' = "returned" /\ result' = try_propagate(r.res)
             ELSE pc' = "loop" /\ result' = result
  ELSE /\ arguments' = arguments
       /\ input_iter' = g.it
       /\ parsables' = g.objs
       /\ dispatch' = Append(dispatch,
                             Event(kind, name, IF g.who > 0 THEN "generic" ELSE "none", g.who))
       /\ IF g.res.tag = "Err"
          THEN pc' = "returned" /\ result' = try_propagate(g.res)
          ELSE IF ~ g.found
               THEN /\ pc' = "returned"
                    /\ result' = ErrWord("Could not find argument identified by {}.", Word)
               ELSE pc' = "loop" /\ result' = result

\* a loop iteration that reads a short-option word
IterShort ==
  /\ pc = "loop"
  /\ HasNext(input, input_iter)
  /\ is_short_option(Word)
  /\ Dispatched("short", <<Word[2]>>,
                search_by_short_name(arguments, Word[2]),
                handle_parsable_short_name(parsable_arguments, parsables, Word[2],
                                           input, input_iter + 1))
  /\ UNCHANGED <<spent, read, parsable_arguments, dangling_values, input>>

\* a loop iteration that reads a long-option word
IterLong ==
  /\ pc = "loop"
  /\ HasNext(input, input_iter)
  /\ is_long_option(Word)
  /\ Dispatched("long", long_name(Word),
                search_by_long_name(arguments, long_name(Word)),
                handle_parsable_long_name(parsable_arguments, parsables, long_name(Word),
                                          input, input_iter + 1))
  /\ UNCHANGED <<spent, read, parsable_arguments, dangling_values, input>>

\* a seeded fault of append_dangling_value: a value already present is not repeated
append_dangling_value_dedup(dv, value) ==
  IF \E i \in 1..Len(dv) : dv[i] = value THEN dv ELSE Append(dv, value)

\* ArgumentList::append_dangling_value
append_dangling_value(dv, value) == Append(dv, value)

\* a loop iteration that reads any other word
IterDangling ==
  /\ pc = "loop"
  /\ HasNext(input, input_iter)
  /\ ~ is_short_option(Word)
  /\ ~ is_long_option(Word)
  /\ dangling_values' = append_dangling_value(dangling_values, Word)
  /\ input_iter' = input_iter + 1
  /\ dispatch' = Append(dispatch, Event("dangling", <<>>, "dangling", 0))
  /\ UNCHANGED <<spent, read, arguments, parsable_arguments, parsables, input, pc, result>>

\* the cursor is exhausted at the top of the loop: Ok(())
IterEnd ==
  /\ pc = "loop"
  /\ ~ HasNext(input, input_iter)
  /\ pc' = "returned"
  /\ result' = Ok
  /\ UNCHANGED <<spent, read, arguments, parsable_arguments, dangling_values, parsables, input,
                 input_iter, dispatch>>

Next ==
  \/ \E d \in OwnedDefs : append_arg(d)
  \/ \E o \in ParsableObjects : register_parsable(o)
  \/ \E inp \in Inputs : parse_args(inp)
  \/ IterShort
  \/ IterLong
  \/ IterDangling
  \/ IterEnd

Spec == Init /\ [][Next]_vars

\* A caller that uses one binding style only, the owned descriptors (the legacy
\* API) or the generic ones, and hands over longer inputs.
NextOneStyle ==
  \/ \E d \in OwnedDefs : parsable_arguments = <<>> /\ append_arg(d)
  \/ \E o \in ParsableObjects : arguments = <<>> /\ register_parsable(o)
  \/ \E inp \in LongInputs : parse_args(inp)
  \/ IterShort
  \/ IterLong
  \/ IterDangling
  \/ IterEnd

SpecOneStyle == Init /\ [][NextOneStyle]_vars

\* ---------------------------------------- direct calls of handle (unit tests)
\* the characters of the tokens handed to the integer handler
IntChars == {"-", "1", "a"}

\* tokens at and around the limits of i64, and malformed ones
SpecialTokens ==
  { <<"1", "2", "3">>, <<"-", "5">>, <<"1", "2", "a">>, <<"1", ".", "2">>,
    <<"-", "0">>, <<"+", "5">>, <<"-", "-", "5">>, <<"5", "-">>,
    I64MaxDigits, I64MinDigits,
    <<"-">> \o I64MinDigits, <<"-">> \o [I64MinDigits EXCEPT ![19] = "9"],
    <<"0", "0", "0">> \o I64MaxDigits,
    <<"1">> \o [i \in 1..19 |-> "0"] }

IntTokens == SeqsUpTo(IntChars, MaxIntTokenLen) \cup SpecialTokens

\* the vectors a test hands to handle: empty, one token, one token and another
HandleInputs ==
  { <<>> } \cup { <<t>> : t \in IntTokens } \cup { <<t, <<"1">> >> : t \in SpecialTokens }

\* arg.handle(&mut inp.iter().peekable()) on a descriptor that is not registered
handle_call(o, inp) ==
  /\ pc = "idle"
  /\ Len(parsables[o].values) < MaxHandled
  /\ LET h == handle(parsables[o], inp, 0)
     IN /\ parsables' = [parsables EXCEPT ![o] = h.obj]
        /\ input' = inp
        /\ input_iter' = h.it
        /\ result' = h.res
  /\ UNCHANGED <<spent, read, arguments, parsable_arguments, dangling_values, pc, dispatch>>

\* the integer descriptor, called directly
NextInteger == \E inp \in HandleInputs : handle_call("argument_int", inp)

SpecInteger == Init /\ [][NextInteger]_vars

\* ------------------------------------------- reading the owned descriptors
\* the accessor fn applied to the descriptor arg
accessor(fn, arg) ==
  CASE fn = "get_value" -> get_value(arg)
    [] fn = "get_values" -> get_values(arg)
    [] fn = "get_flag" -> get_flag(arg)

Accessors == {"get_value", "get_values", "get_flag"}

\* args_list.arguments[k].get_value() / get_values() / get_flag(): a shared
\* borrow of the registry, so not while parse_args is running
accessor_call(fn, k) ==
  /\ pc # "loop"
  /\ k \in 1..Len(arguments)
  /\ read' = [fn |-> fn, idx |-> k, obj |-> "", ret |-> accessor(fn, arguments[k])]
  /\ UNCHANGED <<spent, arguments, parsable_arguments, dangling_values, parsables, input,
                 input_iter, pc, result, dispatch>>

AccessInputs == SeqsUpTo(Tokens \ { <<"-", "-">> }, MaxAccessInput)

\* a caller of the legacy API: owned descriptors, one parse, accessor calls
NextAccess ==
  \/ \E d \in OwnedDefs : append_arg(d)
  \/ \E inp \in AccessInputs : parse_args(inp)
  \/ IterShort
  \/ IterLong
  \/ IterDangling
  \/ IterEnd
  \/ \E fn \in Accessors : \E k \in 1..Cardinality(OwnedDefs) : accessor_call(fn, k)

SpecAccess == Init /\ [][NextAccess]_vars

\* ------------------------------------------------- constructing descriptors
\* the names handed to Argument::new
ShortNames == {None, Some("a"), Some("b")}
LongNames == {None, Some(<<>>), Some(LongAb)}

\* Argument::new(short, long, arg_type), and append_arg of the descriptor when
\* it is Ok
new_call(short, long, arg_type) ==
  /\ pc = "idle"
  /\ Len(arguments) < MaxConstructed
  /\ LET n == Argument_new(short, long, arg_type)
     IN /\ result' = n.res
        /\ arguments' = IF n.res.tag = "Ok" THEN Append(arguments, n.arg[1]) ELSE arguments
  /\ UNCHANGED <<spent, parsable_arguments, dangling_values, parsables, input, input_iter,
                 pc, dispatch, read>>

NextNew ==
  \E short \in ShortNames : \E long \in LongNames : \E arg_type \in ArgType :
    new_call(short, long, arg_type)

SpecNew == Init /\ [][NextNew]_vars

\* ------------------------------- the borrows of the caller's generic descriptors
\* the registry holds the &'a mut handle of the object o
\* (parsable_arguments: Vec<&'a mut dyn HandleableArgument<'a>>)
borrowed(alive, pa, o) == alive /\ \E j \in 1..Len(pa) : pa[j] = o

\* ParsableValueArgument::values
values(obj) == obj.values

\* ParsableValueArgument::first_value: self.values().get(0)
first_value(obj) == IF Len(values(obj)) > 0 THEN Some(values(obj)[1]) ELSE None

\* o.values() / o.first_value() by the caller: a shared borrow of o, which the
\* borrow checker admits only when no registry still in use holds o
values_call(o) ==
  /\ pc # "loop"
  /\ ~ borrowed(pc # "dropped", parsable_arguments, o)
  /\ read' = [fn |-> "values", idx |-> 0, obj |-> o,
              ret |-> Returned(Ok, <<>>, values(parsables[o]), FALSE)]
  /\ UNCHANGED <<spent, arguments, parsable_arguments, dangling_values, parsables, input,
                 input_iter, pc, result, dispatch>>

first_value_call(o) ==
  /\ pc # "loop"
  /\ ~ borrowed(pc # "dropped", parsable_arguments, o)
  /\ read' = [fn |-> "first_value", idx |-> 0, obj |-> o,
              ret |-> Returned(Ok, <<>>, first_value(parsables[o]), FALSE)]
  /\ UNCHANGED <<spent, arguments, parsable_arguments, dangling_values, parsables, input,
                 input_iter, pc, result, dispatch>>

\* a seeded fault of the drop: the registry owns the descriptors it holds and
\* takes them with it
drop_registry_owning ==
  /\ pc \in {"idle", "returned"}
  /\ pc' = "dropped"
  /\ parsables' = [o \in ParsableObjects |->
                     IF borrowed(TRUE, parsable_arguments, o)
                     THEN ParsableValueArgument_new(o) ELSE parsables[o]]
  /\ UNCHANGED <<spent, arguments, parsable_arguments, dangling_values, input, input_iter,
                 result, dispatch, read>>

\* the registry goes out of scope, or is past its last use: ArgumentList has no
\* Drop impl, its vectors are freed and the handles in parsable_arguments are
\* references, whose referents are left alone
drop_registry ==
  /\ pc \in {"idle", "returned"}
  /\ pc' = "dropped"
  /\ UNCHANGED <<spent, arguments, parsable_arguments, dangling_values, parsables, input,
                 input_iter, result, dispatch, read>>

\* a caller of the generic API: registration, one parse, the drop, reads
NextBorrow ==
  \/ \E o \in ParsableObjects : register_parsable(o)
  \/ \E inp \in LongInputs : parse_args(inp)
  \/ IterShort
  \/ IterLong
  \/ IterDangling
  \/ IterEnd
  \/ drop_registry
  \/ \E o \in ParsableObjects : values_call(o)
  \/ \E o \in ParsableObjects : first_value_call(o)

SpecBorrow == Init /\ [][NextBorrow]_vars

\* the loop of parse_args runs on: a call that has started is not left half-way
\* (single-threaded, synchronous, no suspension point)
SpecTerminates ==
  /\ Init
  /\ [][NextOneStyle]_vars
  /\ WF_vars(IterShort \/ IterLong \/ IterDangling \/ IterEnd)

\* ------------- the validator-based ParsableValueArgument of src/argument.rs
\* the validator closure of new_integer: TRUE iff it returns None (no error)
argument_rs_validator_integer(v) == \A i \in 1..Len(v) : is_digit(v[i])

\* the handler closure of new_integer: val.parse(), the values are not touched
argument_rs_handler_integer(val, vals) ==
  [res |-> parse_i64(val).res, v |-> parse_i64(val).v, values |-> vals]

\* ParsableValueArgument::new_integer(identification)
argument_rs_new_integer(identification) ==
  [identification |-> identification, validator |-> "integer", handler |-> "integer",
   values |-> <<>>]

\* ParsableValueArgument::validate
argument_rs_validate(obj, value) ==
  IF argument_rs_validator_integer(value) THEN None ELSE Some("Input is not a number")

\* ParsableValueArgument::handle(value): the Result of the handler is returned,
\* nothing is pushed
argument_rs_handle(obj, value) ==
  IF argument_rs_validate(obj, value) # None
  THEN [obj |-> obj, res |-> Err(argument_rs_validate(obj, value)[1]), v |-> 0]
  ELSE LET r == argument_rs_handler_integer(value, obj.values)
       IN [obj |-> [obj EXCEPT !.values = r.values], res |-> r.res, v |-> r.v]

\* let mut arg = ParsableValueArgument::<i64>::new_integer(Short('i'))
InitValidated ==
  /\ arguments = <<>>
  /\ parsable_arguments = <<>>
  /\ dangling_values = <<>>
  /\ parsables = [o \in {"arg"} |-> argument_rs_new_integer(IdShort("i"))]
  /\ input = <<>>
  /\ input_iter = 0
  /\ pc = "idle"
  /\ result = NoReturn
  /\ dispatch = <<>>
  /\ read = NoRead
  /\ spent = 0

ValidatedTokens == SeqsUpTo(IntChars, MaxValidatedTokenLen) \cup SpecialTokens

\* arg.handle(value); input records the value handed over, read the Result
argument_rs_handle_call(value) ==
  /\ pc = "idle"
  /\ LET h == argument_rs_handle(parsables["arg"], value)
     IN /\ parsables' = [parsables EXCEPT !["arg"] = h.obj]
        /\ result' = h.res
        /\ read' = [fn |-> "handle", idx |-> 0, obj |-> "arg",
                    ret |-> Returned(h.res, <<>>,
                                     IF h.res.tag = "Ok" THEN <<h.v>> ELSE <<>>, FALSE)]
  /\ input' = <<value>>
  /\ UNCHANGED <<spent, arguments, parsable_arguments, dangling_values, input_iter, pc, dispatch>>

NextValidated == \E value \in ValidatedTokens : argument_rs_handle_call(value)

SpecValidated == InitValidated /\ [][NextValidated]_vars

\* a seeded fault of a further call: the registry is cleared before the loop
parse_args_again_reset(inp) ==
  /\ pc = "returned"
  /\ spent + Len(inp) <= MaxTotalInput
  /\ input' = inp
  /\ input_iter' = 0
  /\ pc' = "loop"
  /\ result' = NoReturn
  /\ dispatch' = <<>>
  /\ spent' = spent + Len(inp)
  /\ arguments' = [k \in 1..Len(arguments) |-> [arguments[k] EXCEPT !.arg_result = None]]
  /\ dangling_values' = <<>>
  /\ parsables' = [o \in DOMAIN parsables |-> [parsables[o] EXCEPT !.values = <<>>]]
  /\ UNCHANGED <<parsable_arguments, read>>

\* ------------------------------------------ several parse_args calls on one registry
\* a further call of args_list.parse_args(inp), after an earlier call has
\* returned Ok or Err: a new cursor on the new input; the registry is as the
\* earlier call left it (dispatch logs the iterations of the call that runs)
parse_args_again(inp) ==
  /\ pc = "returned"
  /\ spent + Len(inp) <= MaxTotalInput
  /\ input' = inp
  /\ input_iter' = 0
  /\ pc' = "loop"
  /\ result' = NoReturn
  /\ dispatch' = <<>>
  /\ spent' = spent + Len(inp)
  /\ UNCHANGED <<arguments, parsable_arguments, dangling_values, parsables, read>>

RepeatInputs == SeqsUpTo(Tokens \ { <<"-", "-">> }, MaxTotalInput)

\* a caller that registers its descriptors and then parses several inputs
NextRepeat ==
  \/ \E d \in OwnedDefs : parsable_arguments = <<>> /\ append_arg(d)
  \/ \E o \in ParsableObjects : arguments = <<>> /\ register_parsable(o)
  \/ \E inp \in RepeatInputs : parse_args(inp)
  \/ \E inp \in RepeatInputs : parse_args_again(inp)
  \/ IterShort
  \/ IterLong
  \/ IterDangling
  \/ IterEnd

SpecRepeat == Init /\ [][NextRepeat]_vars

TypeOK ==
  /\ pc \in {"idle", "loop", "returned", "dropped"}
  /\ input_iter \in 0..Len(input)
  /\ result.tag \in {"Running", "Ok", "Err"}
  /\ pc = "loop" => result.tag = "Running"
  /\ pc = "returned" => result.tag # "Running"
  /\ pc # "idle" => spent >= Len(input)


\* =========================================================================
\* The vocabulary of the properties, written from the specification's words
\* =========================================================================

\* "-<alpha>", exactly two characters
ShortOptionTokens == { <<"-", c>> : c \in Alphabetic }

\* "--<alpha>...", more than two characters
IsLongOptionToken(w) ==
  /\ Len(w) > 2
  /\ SubSeq(w, 1, 2) = <<"-", "-">>
  /\ w[3] \in Alphabetic

IsOptionToken(w) == w \in ShortOptionTokens \/ IsLongOptionToken(w)

\* the name an option token carries, as a string
NameOf(w) == IF w \in ShortOptionTokens THEN <<w[2]>> ELSE SubSeq(w, 3, Len(w))

\* the owned descriptor x answers to the option token w
OwnedAnswers(x, w) ==
  IF w \in ShortOptionTokens
  THEN x.short = Some(w[2])
  ELSE x.long = Some(NameOf(w))

\* the generic descriptor with identification id answers to the option token w
GenericAnswers(id, w) ==
  IF w \in ShortOptionTokens
  THEN id.kind \in {"Short", "Both"} /\ id.c = w[2]
  ELSE id.kind \in {"Long", "Both"} /\ id.s = NameOf(w)

\* the indices of the owned descriptors / registered handles that answer to w
OwnedFor(w) == { k \in 1..Len(arguments) : OwnedAnswers(arguments[k], w) }
GenericFor(w) ==
  { j \in 1..Len(parsable_arguments) :
      GenericAnswers(parsables[parsable_arguments[j]].identification, w) }

Min(S) == CHOOSE m \in S : \A n \in S : m <= n

\* the words of the iterations that took their word as a dangling value, in order
RECURSIVE DanglingWords(_)
DanglingWords(evs) ==
  IF evs = <<>> THEN <<>>
  ELSE LET e == evs[Len(evs)]
           rest == DanglingWords(SubSeq(evs, 1, Len(evs) - 1))
       IN IF e.kind = "dangling" THEN Append(rest, input[e.at]) ELSE rest

\* the value a default handler makes of a token
RECURSIVE Decimal(_, _)
Decimal(ds, acc) ==
  IF ds = <<>> THEN acc ELSE Decimal(Tail(ds), 10 * acc + DigitValue(ds[1]))

\* the decimal digits of a natural number (none for 0), and the i64 value
\* that is the integer n
DigitChar(k) == CHOOSE c \in Digits : DigitValue(c) = k

RECURSIVE DigitsOf(_)
DigitsOf(n) == IF n = 0 THEN <<>> ELSE Append(DigitsOf(n \div 10), DigitChar(n % 10))

I64Of(n) == [neg |-> n < 0, mag |-> DigitsOf(IF n < 0 THEN 0 - n ELSE n)]

\* the integer an i64 value of few digits is
ToInt(x) == IF x.neg THEN 0 - Magnitude(x.mag) ELSE Magnitude(x.mag)

ValueOfToken(obj, w) ==
  IF obj.handler = "string" THEN w
  ELSE I64Of(IF w[1] = "-" THEN 0 - Decimal(Tail(w), 0) ELSE Decimal(w, 0))

\* the descriptor an option token names: the owned descriptor appended first
\* that answers to it, failing that the generic descriptor registered first
Named(w) ==
  IF OwnedFor(w) # {} THEN <<"owned", Min(OwnedFor(w))>>
  ELSE IF GenericFor(w) # {} THEN <<"generic", Min(GenericFor(w))>>
  ELSE <<"none", 0>>

\* the option token w names a descriptor that needs one trailing value
NeedsValue(w) ==
  ~ (Named(w)[1] = "owned" /\ arguments[Named(w)[2]].arg_type = "Flag")

\* from position i on, the input is made of option tokens that name registered
\* descriptors, each followed by the trailing value its descriptor needs
RECURSIVE OptionsOnlyFrom(_)
OptionsOnlyFrom(i) ==
  IF i > Len(input) THEN TRUE
  ELSE /\ IsOptionToken(input[i])
       /\ Named(input[i])[1] # "none"
       /\ IF NeedsValue(input[i])
          THEN i + 1 <= Len(input) /\ OptionsOnlyFrom(i + 2)
          ELSE OptionsOnlyFrom(i + 1)

\* the positions of the option tokens of such an input
RECURSIVE OptionPositionsFrom(_)
OptionPositionsFrom(i) ==
  IF i > Len(input) THEN <<>>
  ELSE <<i>> \o OptionPositionsFrom(IF NeedsValue(input[i]) THEN i + 2 ELSE i + 1)

\* the positions of the option tokens that name the descriptor d
PositionsNaming(d) ==
  LET Test(i) == Named(input[i]) = d
  IN SelectSeq(OptionPositionsFrom(1), Test)

\* no Flag or Value option is repeated
NoFlagOrValueRepeated ==
  \A k \in 1..Len(arguments) :
    arguments[k].arg_type \in {"Flag", "Value"} => Len(PositionsNaming(<<"owned", k>>)) <= 1

\* a decimal integer that fits i64: digits, optionally preceded by one '-'
IsIntegerLiteral(w) ==
  LET neg == w # <<>> /\ w[1] = "-"
      ds == IF neg THEN Tail(w) ELSE w
  IN /\ ds # <<>>
     /\ \A i \in 1..Len(ds) : ds[i] \in Digits
     /\ FitsI64(ds, IF neg THEN I64MinDigits ELSE I64MaxDigits)

\* every trailing value of an integer descriptor is a decimal integer
IntegerValuesValid ==
  \A j \in 1..Len(parsable_arguments) :
    parsables[parsable_arguments[j]].handler = "integer" =>
      LET ps == PositionsNaming(<<"generic", j>>)
      IN \A i \in 1..Len(ps) : IsIntegerLiteral(input[ps[i] + 1])

\* every descriptor holds what the input supplied for it, in supply order
HoldsWhatWasSupplied ==
  /\ \A k \in 1..Len(arguments) :
       LET ps == PositionsNaming(<<"owned", k>>)
           t == arguments[k].arg_type
       IN arguments[k].arg_result =
            IF ps = <<>> THEN None
            ELSE IF t = "Flag" THEN Some(ResFlag)
            ELSE IF t = "Value" THEN Some(ResValue(input[ps[1] + 1]))
            ELSE Some(ResValueList([i \in 1..Len(ps) |-> input[ps[i] + 1]]))
  /\ \A j \in 1..Len(parsable_arguments) :
       LET ps == PositionsNaming(<<"generic", j>>)
           obj == parsables[parsable_arguments[j]]
       IN obj.values = [i \in 1..Len(ps) |-> ValueOfToken(obj, input[ps[i] + 1])]

C2_Classification ==
  /\ \A i \in 1..Len(dispatch) :
       LET e == dispatch[i]
           w == input[e.at]
       IN /\ (e.kind = "short") = (w \in ShortOptionTokens)
          /\ (e.kind = "long") = IsLongOptionToken(w)
          /\ (e.kind = "dangling") = ~ IsOptionToken(w)
          /\ e.kind \in {"short", "long"} => e.name = NameOf(w)
          /\ e.kind = "dangling" => e.tier = "dangling" /\ e.idx = 0
          /\ e.kind \in {"short", "long"} => e.tier \in {"owned", "generic", "none"}
  /\ dangling_values = DanglingWords(dispatch)

\* the word "-ab" has been read with descriptors registered that answer to a and ab
C2_Witness ==
  /\ pc = "returned"
  /\ input = << <<"-", "a", "b">> >>
  /\ dangling_values = input
  /\ Len(arguments) = 3
  /\ result = Ok

\* ------------------------------------------------------------------------
\* C3: a well-formed option word that no owned and no registered generic
\* descriptor answers to makes parse_args return "Could not find argument
\* identified by <word>" at once: the word is not stored as a dangling value,
\* no descriptor changes, and nothing after it is read.
C3_UnknownOption ==
  [][ /\ (pc = "loop" /\ HasNext(input, input_iter) /\ IsOptionToken(Word)
            /\ OwnedFor(Word) = {} /\ GenericFor(Word) = {})
          => /\ pc' = "returned"
             /\ result' = ErrWord("Could not find argument identified by {}.", Word)
             /\ arguments' = arguments
             /\ parsables' = parsables
             /\ dangling_values' = dangling_values
             /\ input_iter' = input_iter + 1
      /\ pc = "returned" => FALSE ]_vars

\* an unknown option met after a dangling value, with a word left behind it
C3_Witness ==
  /\ pc = "returned"
  /\ result.msg = "Could not find argument identified by {}."
  /\ result.word = input[input_iter]
  /\ input_iter = 2
  /\ Len(input) = 3
  /\ Len(dangling_values) = 1
  /\ Len(arguments) > 0

\* ------------------------------------------------------------------------
\* C4: an option word that an owned descriptor answers to is dispatched to the
\* owned descriptor and to no generic descriptor, whether add_value succeeds or
\* fails: the generic tier is asked only when no owned descriptor answers.
C4_OwnedShadowsGeneric ==
  [][ (pc = "loop" /\ HasNext(input, input_iter) /\ IsOptionToken(Word)
         /\ OwnedFor(Word) # {})
        => /\ parsables' = parsables
           /\ dispatch'[Len(dispatch')].tier = "owned"
           /\ dispatch'[Len(dispatch')].idx \in OwnedFor(Word)
           /\ result'.tag = "Err" =>
                result'.msg \in {"Flag already set", "Value already assigned",
                                 "Expected value"} ]_vars

\* the second occurrence of a Value option failed while a generic descriptor with
\* the same long name was registered; that descriptor has no value
C4_Witness ==
  /\ pc = "returned"
  /\ result.msg = "Value already assigned"
  /\ \E j \in 1..Len(parsable_arguments) :
       /\ is_by_long(parsables[parsable_arguments[j]].identification, LongAb)
       /\ parsables[parsable_arguments[j]].values = <<>>
  /\ Len(dispatch) = 2

\* ------------------------------------------------------------------------
\* C5: the option word of an owned Flag or Value descriptor whose result is
\* present makes add_value fail ("Flag already set" / "Value already
\* assigned"): parse_args returns that error, the earlier binding is kept and
\* no token is taken from the cursor beyond the option word.
C5_NoRebinding ==
  [][ \A t \in {"Flag", "Value"} :
        (pc = "loop" /\ HasNext(input, input_iter) /\ IsOptionToken(Word)
           /\ OwnedFor(Word) # {}
           /\ arguments[Min(OwnedFor(Word))].arg_type = t
           /\ arguments[Min(OwnedFor(Word))].arg_result # None)
          => /\ pc' = "returned"
             /\ result' = Err(IF t = "Flag" THEN "Flag already set"
                                            ELSE "Value already assigned")
             /\ arguments' = arguments
             /\ input_iter' = input_iter + 1 ]_vars

\* a Flag option occurred twice, with a word left after the second occurrence
C5_Witness ==
  /\ pc = "returned"
  /\ result = Err("Flag already set")
  /\ input_iter < Len(input)
  /\ Len(dispatch) = 2


\* the iterations that dispatched to the descriptor idx of the tier, in order
EventsTo(tier, idx) ==
  LET Test(e) == e.tier = tier /\ e.idx = idx
  IN SelectSeq(dispatch, Test)

\* the last iteration
LastEvent == dispatch[Len(dispatch)]

\* ------------------------------------------------------------------------
\* C6: an owned ValueList descriptor never fails because of repetition: its
\* list is created at the first occurrence of its option (short or long name),
\* each occurrence that is followed by a token takes exactly that token, and the
\* list is exactly those tokens in the order supplied.
C6_ValueListAccumulates ==
  \A k \in 1..Len(arguments) :
    arguments[k].arg_type = "ValueList" =>
      LET evs == EventsTo("owned", k)
          Fed(e) == e.at < Len(input)
          fed == SelectSeq(evs, Fed)
      IN /\ (evs = <<>>) = (arguments[k].arg_result = None)
         /\ evs # <<>> =>
              arguments[k].arg_result =
                Some(ResValueList([i \in 1..Len(fed) |-> input[fed[i].at + 1]]))
         /\ \A i \in 1..Len(dispatch) :
              (dispatch[i].tier = "owned" /\ dispatch[i].idx = k /\ Fed(dispatch[i]))
                => IF i < Len(dispatch)
                   THEN dispatch[i + 1].at = dispatch[i].at + 2
                   ELSE input_iter = dispatch[i].at + 1 /\ result.tag # "Err"
         /\ (result.tag = "Err" /\ LastEvent.tier = "owned" /\ LastEvent.idx = k)
              => result = Err("Expected value") /\ LastEvent.at = Len(input)

\* two occurrences, the first by the short and the second by the long name
C6_Witness ==
  /\ pc = "returned"
  /\ result = Ok
  /\ Len(dispatch) = 2
  /\ dispatch[1].kind = "short"
  /\ dispatch[2].kind = "long"
  /\ \E k \in 1..Len(arguments) :
       arguments[k].arg_result = Some(ResValueList(<< <<"1">>, <<"-", "a">> >>))

\* ------------------------------------------------------------------------
\* C7: when the option word of an owned Value (not yet bound) or ValueList
\* descriptor is the last token, parse_args fails with "Expected value"; when it
\* is the option word of a generic descriptor with a default handler, parse_args
\* fails as well and the descriptor's values are unchanged.
C7_Starvation ==
  [][ (pc = "loop" /\ HasNext(input, input_iter) /\ IsOptionToken(Word)
         /\ input_iter + 1 = Len(input))
        => /\ (/\ OwnedFor(Word) # {}
               /\ LET x == arguments[Min(OwnedFor(Word))]
                  IN \/ x.arg_type = "ValueList"
                     \/ x.arg_type = "Value" /\ x.arg_result = None)
                => pc' = "returned" /\ result' = Err("Expected value")
           /\ (OwnedFor(Word) = {} /\ GenericFor(Word) # {})
                => /\ pc' = "returned"
                   /\ result' = Err("No remaining input values.")
                   /\ parsables' = parsables ]_vars

\* a ValueList option was the last token, after an earlier complete occurrence
C7_Witness ==
  /\ pc = "returned"
  /\ result = Err("Expected value")
  /\ Len(input) = 3
  /\ LastEvent.at = 3
  /\ arguments[LastEvent.idx].arg_type = "ValueList"

\* ------------------------------------------------------------------------
\* C8: every occurrence of a generic descriptor's option invokes its handler
\* once, and every successful invocation appends its value at the end: the
\* values are exactly the values of the successful occurrences, in order; a
\* repeated occurrence is never refused as an arity violation.
C8_GenericAccumulates ==
  /\ \A j \in 1..Len(parsable_arguments) :
       LET obj == parsables[parsable_arguments[j]]
           evs == EventsTo("generic", j)
           Succeeded(e) == ~ (result.tag = "Err" /\ e = LastEvent)
           ok == SelectSeq(evs, Succeeded)
       IN obj.values = [i \in 1..Len(ok) |-> ValueOfToken(obj, input[ok[i].at + 1])]
  /\ \A o \in ParsableObjects :
       (\A j \in 1..Len(parsable_arguments) : parsable_arguments[j] # o)
         => parsables[o].values = <<>>
  /\ (result.tag = "Err" /\ LastEvent.tier = "generic")
       => result.msg \in {"Input is not a number", "No remaining input values."}

\* the string descriptor has taken two values in two occurrences
C8_Witness ==
  /\ pc = "returned"
  /\ result = Ok
  /\ Len(dispatch) = 2
  /\ parsables["argument_str"].values = << <<"1">>, <<"-", "a">> >>

\* ------------------------------------------------------------------------
\* C9: when the handler of the generic descriptor an option word is dispatched
\* to returns an error, parse_args returns that very error, no value is
\* appended to any descriptor, and no later token is read.
C9_HandlerError ==
  [][ /\ (/\ pc = "loop" /\ HasNext(input, input_iter) /\ IsOptionToken(Word)
          /\ OwnedFor(Word) = {} /\ GenericFor(Word) # {}
          /\ call_handler(parsables[parsable_arguments[Min(GenericFor(Word))]],
                          input, input_iter + 1).res.tag = "Err")
          => /\ pc' = "returned"
             /\ result' = call_handler(parsables[parsable_arguments[Min(GenericFor(Word))]],
                                       input, input_iter + 1).res
             /\ parsables' = parsables
             /\ arguments' = arguments
             /\ dangling_values' = dangling_values
      /\ (pc = "returned" /\ result.tag = "Err") => FALSE ]_vars

\* the integer handler refused its token, with a word left behind it
C9_Witness ==
  /\ pc = "returned"
  /\ result = Err("Input is not a number")
  /\ input_iter = 2
  /\ Len(input) = 3
  /\ LastEvent.tier = "generic"

\* ------------------------------------------------------------------------
\* C10: when no owned descriptor and several registered generic descriptors
\* answer to an option word, the one registered first is invoked and it alone:
\* the others keep their values.
C10_FirstRegisteredWins ==
  [][ (pc = "loop" /\ HasNext(input, input_iter) /\ IsOptionToken(Word)
         /\ OwnedFor(Word) = {} /\ Cardinality(GenericFor(Word)) >= 2)
        => LET j == Min(GenericFor(Word))
               o == parsable_arguments[j]
           IN /\ dispatch'[Len(dispatch')].tier = "generic"
              /\ dispatch'[Len(dispatch')].idx = j
              /\ \A q \in ParsableObjects \ {o} : parsables'[q] = parsables[q]
              /\ result'.tag # "Err" =>
                   Len(parsables'[o].values) = Len(parsables[o].values) + 1 ]_vars

\* both generic descriptors answer to --ab; the string one, registered first, took
\* the value
C10_Witness ==
  /\ pc = "returned"
  /\ result = Ok
  /\ arguments = <<>>
  /\ parsable_arguments = <<"argument_str", "argument_int">>
  /\ parsables["argument_str"].values = << <<"1">> >>
  /\ parsables["argument_int"].values = <<>>

\* ------------------------------------------------------------------------
\* the positions read at the top of the loop by a parse that succeeds: an option
\* token whose descriptor needs a value is followed by that value, which is not
\* read at the top of the loop
RECURSIVE TopPositionsFrom(_)
TopPositionsFrom(i) ==
  IF i > Len(input) THEN <<>>
  ELSE <<i>> \o TopPositionsFrom(IF IsOptionToken(input[i]) /\ NeedsValue(input[i])
                                 THEN i + 2 ELSE i + 1)

\* the tokens at those positions that are not well-formed option tokens
ExpectedDangling ==
  LET NotOption(i) == ~ IsOptionToken(input[i])
      ps == SelectSeq(TopPositionsFrom(1), NotOption)
  IN [n \in 1..Len(ps) |-> input[ps[n]]]

DigitsPart(t) == IF t # <<>> /\ t[1] = "-" THEN Tail(t) ELSE t

\* the digit string ds without its leading zeros
SignificantDigits(ds) ==
  LET nz == { i \in 1..Len(ds) : ds[i] # "0" }
  IN IF nz = {} THEN <<>> ELSE SubSeq(ds, Min(nz), Len(ds))

\* the digit string d, without leading zeros, is at most the 19-digit limit
AtMost(d, lim) ==
  \/ Len(d) < Len(lim)
  \/ /\ Len(d) = Len(lim)
     /\ \A i \in 1..Len(d) :
          DigitValue(d[i]) > DigitValue(lim[i])
            => \E j \in 1..(i - 1) : DigitValue(d[j]) < DigitValue(lim[j])

\* one or more decimal digits, optionally preceded by a single '-', whose value
\* lies in -2^63 .. 2^63 - 1
IsDecimalI64(t) ==
  /\ DigitsPart(t) # <<>>
  /\ \A i \in 1..Len(DigitsPart(t)) : DigitsPart(t)[i] \in Digits
  /\ AtMost(SignificantDigits(DigitsPart(t)),
            IF t[1] = "-" THEN I64MinDigits ELSE I64MaxDigits)

\* the integer value of such a token
IntegerValue(t) ==
  [neg |-> t[1] = "-" /\ SignificantDigits(DigitsPart(t)) # <<>>,
   mag |-> SignificantDigits(DigitsPart(t))]

\* C12: handed a token, the default integer handler takes exactly that token
\* from the cursor; it succeeds and appends the token's integer value iff the
\* token is one or more decimal digits optionally preceded by a single '-' and
\* the value fits i64 ("123" gives 123, "-5" gives -5); for every other token
\* ("-", "12a", "1.2", the empty token, a digit string out of range) it returns
\* an error and the values are unchanged.
C12_IntegerHandler ==
  [][ input' # <<>> =>
        LET t == input'[1]
            old == parsables["argument_int"].values
            new == parsables'["argument_int"].values
        IN /\ input_iter' = 1
           /\ IF IsDecimalI64(t)
              THEN result' = Ok /\ new = Append(old, IntegerValue(t))
              ELSE result'.tag = "Err" /\ new = old
           /\ t = <<"1", "2", "3">> => ToInt(new[Len(new)]) = 123
           /\ t = <<"-", "5">> => ToInt(new[Len(new)]) = 0 - 5
           /\ t \in { <<"-">>, <<"1", "2", "a">>, <<"1", ".", "2">>, <<>>,
                      I64MinDigits, <<"-">> \o [I64MinDigits EXCEPT ![19] = "9"] }
                => result'.tag = "Err" ]_vars

\* i64::MIN was handled after -5; the token after it was left on the cursor
C12_Witness ==
  /\ input = << <<"-">> \o I64MinDigits, <<"1">> >>
  /\ input_iter = 1
  /\ result = Ok
  /\ parsables["argument_int"].values = << I64Of(0 - 5), I64(TRUE, I64MinDigits) >>

\* a handler error was returned for 2^63 with a value already held
C12_WitnessRefused ==
  /\ input = << I64MinDigits >>
  /\ result = Err("number too large to fit in target type")
  /\ Len(parsables["argument_int"].values) = 1

\* ------------------------------------------------------------------------
\* the option of the owned descriptor k occurred in the input parsed
Occurred(k) == EventsTo("owned", k) # <<>>

\* an occurrence of the option of the owned descriptor k was followed by a token
FedEvents(k) ==
  LET Fed(e) == e.at < Len(input)
  IN SelectSeq(EventsTo("owned", k), Fed)

\* C13: get_value succeeds iff the kind is Value and a value has been bound (it
\* returns that value), get_values succeeds iff the kind is ValueList and a
\* result is present (it returns the list), get_flag fails iff the kind is not
\* Flag and for a Flag returns true iff the flag occurred, false when it did
\* not; an accessor, failing or not, changes nothing in the descriptor or the
\* registry.
C13_Accessors ==
  [][ read' # read =>
        LET k == read'.idx
            x == arguments[k]
            r == read'.ret
        IN /\ arguments' = arguments
           /\ parsable_arguments' = parsable_arguments
           /\ dangling_values' = dangling_values
           /\ parsables' = parsables
           /\ read'.fn = "get_value" =>
                /\ (r.res = Ok) = (x.arg_type = "Value" /\ FedEvents(k) # <<>>)
                /\ r.res = Ok => r.value = input[FedEvents(k)[1].at + 1]
                /\ r.res # Ok => r.res.tag = "Err"
           /\ read'.fn = "get_values" =>
                /\ (r.res = Ok) = (x.arg_type = "ValueList" /\ x.arg_result # None)
                /\ r.res = Ok => r.list = x.arg_result[1].list
                /\ r.res # Ok => r.res.tag = "Err"
           /\ read'.fn = "get_flag" =>
                /\ (r.res.tag = "Err") = (x.arg_type # "Flag")
                /\ x.arg_type = "Flag" => r.res = Ok /\ r.flag = Occurred(k) ]_vars

\* after a successful parse in which the flag did not occur, get_flag on the
\* Flag descriptor returned Ok(false)
C13_Witness ==
  /\ pc = "returned"
  /\ result = Ok
  /\ Len(arguments) = 3
  /\ Len(dispatch) > 0
  /\ read.fn = "get_flag"
  /\ arguments[read.idx].arg_type = "Flag"
  /\ read.ret.res = Ok
  /\ read.ret.flag = FALSE

\* ------------------------------------------------------------------------
\* C14: Argument::new fails iff both the short and the long name are absent;
\* with a short name, a long name or both it succeeds for every arity kind and
\* the descriptor carries those names and that kind and has no result.
C14_ArgumentNew ==
  [][ \A short \in ShortNames : \A long \in LongNames : \A arg_type \in ArgType :
        new_call(short, long, arg_type) =>
          IF short = None /\ long = None
          THEN result'.tag = "Err" /\ arguments' = arguments
          ELSE /\ result' = Ok
               /\ Len(arguments') = Len(arguments) + 1
               /\ LET x == arguments'[Len(arguments')]
                  IN /\ x.short = short
                     /\ x.long = long
                     /\ x.arg_type = arg_type
                     /\ x.arg_result = None ]_vars

\* a descriptor with a long name only was constructed, then a construction
\* without names failed
C14_Witness ==
  /\ result.tag = "Err"
  /\ Len(arguments) = 1
  /\ arguments[1].short = None
  /\ arguments[1].long = Some(LongAb)
  /\ arguments[1].arg_type = "ValueList"
  /\ pc = "idle"
  /\ input = <<>>

\* ------------------------------------------------------------------------
\* the detail with which the add_value of the owned descriptor x fails when its
\* option word is read and hasToken tells whether a token follows; "" when it
\* does not fail
Detail(x, hasToken) ==
  CASE x.arg_type = "Flag" -> IF x.arg_result # None THEN "Flag already set" ELSE ""
    [] x.arg_type = "Value" ->
         IF x.arg_result # None THEN "Value already assigned"
         ELSE IF hasToken THEN "" ELSE "Expected value"
    [] x.arg_type = "ValueList" -> IF hasToken THEN "" ELSE "Expected value"

\* the add_value of the owned descriptor matched by the word read fails
OwnedFails ==
  /\ pc = "loop" /\ HasNext(input, input_iter) /\ IsOptionToken(Word)
  /\ OwnedFor(Word) # {}
  /\ Detail(arguments[Min(OwnedFor(Word))], input_iter + 1 < Len(input)) # ""

\* C15, as stated: when the add_value of a matched owned descriptor fails with
\* detail D, parse_args returns "Error while parsing arguments: D".
C15_AsStated ==
  [][ OwnedFails =>
        result' = Err(Prefixed(Detail(arguments[Min(OwnedFor(Word))],
                                      input_iter + 1 < Len(input)))) ]_vars

\* C15, amended: when the add_value of a matched owned descriptor fails with
\* detail D ("Flag already set", "Value already assigned" or "Expected value"),
\* parse_args returns D itself, with nothing put before it.
C15_DetailUnprefixed ==
  [][ /\ OwnedFails =>
           /\ pc' = "returned"
           /\ result' = Err(Detail(arguments[Min(OwnedFor(Word))],
                                   input_iter + 1 < Len(input)))
      /\ (result'.tag = "Err" /\ pc = "loop" /\ IsOptionToken(Word) /\ OwnedFor(Word) # {})
           => OwnedFails ]_vars

\* the second occurrence of a Flag option made parse_args return the detail
C15_Witness ==
  /\ pc = "returned"
  /\ result = Err("Flag already set")
  /\ input = << <<"-", "a">>, <<"-", "a">> >>
  /\ LastEvent.tier = "owned"
  /\ parsable_arguments = <<>>

\* ------------------------------------------------------------------------
\* the values the parse accumulated in the caller's object o, in order: the
\* values of the tokens that followed the successful occurrences dispatched to it
AccumulatedIn(o) ==
  LET To(e) == /\ e.tier = "generic"
               /\ parsable_arguments[e.idx] = o
               /\ ~ (result.tag = "Err" /\ e = LastEvent)
      evs == SelectSeq(dispatch, To)
  IN [i \in 1..Len(evs) |-> ValueOfToken(parsables[o], input[evs[i].at + 1])]

\* the step is a read of a generic descriptor by the caller
CallerReads ==
  /\ read'.fn \in {"values", "first_value"}
  /\ UNCHANGED <<spent, arguments, parsable_arguments, dangling_values, parsables, input,
                 input_iter, pc, result, dispatch>>

\* the registry still in use holds the object o
HeldByRegistry(o) ==
  pc # "dropped" /\ \E j \in 1..Len(parsable_arguments) : parsable_arguments[j] = o

\* C16: a registered generic descriptor is not read by the caller, and is
\* changed by nothing but the registry's own dispatch, while the registry that
\* holds it is still usable; the drop of the registry changes no descriptor,
\* and a read after it returns exactly the values accumulated during parsing,
\* in order.
C16_BorrowThenRead ==
  [][ /\ CallerReads =>
           /\ ~ HeldByRegistry(read'.obj)
           /\ read'.fn = "values" => read'.ret.list = AccumulatedIn(read'.obj)
           /\ read'.fn = "first_value" =>
                read'.ret.list = IF AccumulatedIn(read'.obj) = <<>> THEN None
                                 ELSE Some(AccumulatedIn(read'.obj)[1])
      /\ \A o \in ParsableObjects :
           (HeldByRegistry(o) /\ parsables'[o] # parsables[o]) => pc = "loop"
      /\ (pc # "dropped" /\ pc' = "dropped") => parsables' = parsables ]_vars

\* after the drop the caller read the two values the string descriptor
\* accumulated during the parse
C16_Witness ==
  /\ pc = "dropped"
  /\ result = Ok
  /\ parsable_arguments = <<"argument_str">>
  /\ read.fn = "values"
  /\ read.obj = "argument_str"
  /\ read.ret.list = << <<"1">>, <<"-", "a">> >>

\* ------------------------------------------------------------------------
\* the position i was read at the top of the loop
ReadAtTop(i) == \E n \in 1..Len(dispatch) : dispatch[n].at = i

\* the iteration e dispatched to a descriptor that pulls a value
PullsValue(e) ==
  \/ e.tier = "generic"
  \/ e.tier = "owned" /\ arguments[e.idx].arg_type \in {"Value", "ValueList"}

\* the position i was pulled as a value by the descriptor of the option token
\* just before it
PulledAsValue(i) ==
  \E n \in 1..Len(dispatch) : dispatch[n].at = i - 1 /\ PullsValue(dispatch[n])

\* the number of tokens the descriptors hold
RECURSIVE SumOver(_, _)
SumOver(f, n) == IF n = 0 THEN 0 ELSE f[n] + SumOver(f, n - 1)

TokensHeld ==
  LET owned == [k \in 1..Len(arguments) |->
                  IF arguments[k].arg_result = None THEN 0
                  ELSE IF arguments[k].arg_type = "Value" THEN 1
                  ELSE Len(arguments[k].arg_result[1].list)]
      generic == [j \in 1..Len(parsable_arguments) |->
                    Len(parsables[parsable_arguments[j]].values)]
  IN SumOver(owned, Len(arguments)) + SumOver(generic, Len(parsable_arguments))

\* C17: on a successful parse the cursor is exhausted and every input token was
\* consumed exactly once: read at the top of the loop (as an option token or as
\* a dangling value), or pulled as the value of the option token just before
\* it; a token pulled as a value is never read at the top of the loop, the
\* positions read only grow, and the tokens held by the descriptors, the
\* option tokens and the dangling values add up to the input.
C17_EachTokenOnce ==
  (pc = "returned" /\ result = Ok) =>
    /\ input_iter = Len(input)
    /\ \A i \in 1..Len(input) : ReadAtTop(i) # PulledAsValue(i)
    /\ \A n \in 1..(Len(dispatch) - 1) :
         dispatch[n + 1].at = dispatch[n].at + (IF PullsValue(dispatch[n]) THEN 2 ELSE 1)
    /\ Len(dispatch) > 0 => dispatch[1].at = 1
    /\ \A n \in 1..Len(dispatch) :
         (dispatch[n].kind = "dangling") = (dispatch[n].tier = "dangling")
    /\ Len(dangling_values) =
         Cardinality({ n \in 1..Len(dispatch) : dispatch[n].kind = "dangling" })
    /\ Len(input) = Len(dispatch) + TokensHeld

\* -a, then --ab which pulled the token -b as its value: -b was not dispatched
C17_Witness ==
  /\ pc = "returned"
  /\ result = Ok
  /\ input = << <<"-", "a">>, <<"-", "-", "a", "b">>, <<"-", "b">> >>
  /\ Len(dispatch) = 2
  /\ dispatch[2].tier = "generic"
  /\ \E k \in 1..Len(arguments) : arguments[k].arg_result = Some(ResFlag)

\* ------------------------------------------------------------------------
\* C18: parse_args terminates on every input, in one of two terminal states:
\* success with the cursor exhausted, or failure at the first error met, after
\* which nothing more is done; every loop iteration takes at least one token
\* and the cursor never moves backwards.
C18_Terminates ==
  /\ [](pc = "loop" => <>(pc = "returned"))
  /\ [](pc = "returned" =>
          \/ result = Ok /\ input_iter = Len(input)
          \/ result.tag = "Err")
  /\ [][ /\ pc = "returned" => FALSE
         /\ pc = "loop" =>
              /\ input_iter' >= input_iter
              /\ input_iter' <= Len(input)
              /\ HasNext(input, input_iter) => input_iter' >= input_iter + 1
              /\ ~ HasNext(input, input_iter) => pc' = "returned" /\ result' = Ok
              /\ pc' = "loop" => result' = NoReturn ]_vars

\* a parse failed at its second token with two tokens left unread
C18_Witness ==
  /\ pc = "returned"
  /\ result.tag = "Err"
  /\ Len(input) = 4
  /\ input_iter = 2
  /\ Len(dispatch) = 2

\* ------------------------------------------------------------------------
\* C19, as stated: in the validator-based ParsableValueArgument, after
\* handle(value) succeeds on an integer argument the parsed value is stored in
\* values (after a first successful handle("123"), values[0] is 123).
C19_AsStated ==
  (read.fn = "handle" /\ result = Ok) =>
    /\ parsables["arg"].values # <<>>
    /\ parsables["arg"].values[Len(parsables["arg"].values)] = read.ret.list[1]
    /\ input = << <<"1", "2", "3">> >> => ToInt(parsables["arg"].values[1]) = 123

\* ------------------------------------------------------------------------
\* C20: after any sequence of registrations and parse_args calls, successful
\* or failed, the result of every owned descriptor is absent or of the variant
\* of its kind (Flag holds Flag, Value holds Value(text), ValueList holds a
\* list); the "Wrong type of result" branches of get_value / get_values and the
\* "WTF" branch of add_value are never taken.
C20_ResultMatchesKind ==
  /\ \A k \in 1..Len(arguments) :
       LET x == arguments[k]
       IN /\ x.arg_result # None =>
               /\ x.arg_result[1].tag = x.arg_type
               /\ x.arg_type # "Value" => x.arg_result[1].value = <<>>
               /\ x.arg_type # "ValueList" => x.arg_result[1].list = <<>>
          /\ get_value(x).res.msg # "Wrong type of result. Something really bad has happened"
          /\ get_values(x).res.msg # "Wrong type of result. Something really bad happened"
  /\ result.msg # "WTF"

\* a first call bound the Value descriptor; a second call failed on the
\* ValueList option, which left an empty list behind
C20_Witness ==
  /\ pc = "returned"
  /\ result = Err("Expected value")
  /\ spent = 3
  /\ Len(input) = 1
  /\ \E k \in 1..Len(arguments) :
       arguments[k].arg_type = "Value" /\ arguments[k].arg_result # None
  /\ \E k \in 1..Len(arguments) :
       arguments[k].arg_type = "ValueList" /\ arguments[k].arg_result # None
         /\ arguments[k].arg_result[1].list = <<>>

BoundNextWord ==
  /\ input_iter' = input_iter + 2
  /\ pc' = "loop"
  /\ result' = result
  /\ dangling_values' = dangling_values
  /\ Len(dispatch') = Len(dispatch) + 1
  /\ dispatch'[Len(dispatch')].at = input_iter + 1
  /\ \A n \in 1..Len(dispatch') : dispatch'[n].at # input_iter + 2

\* C22: when the loop reads the option token of an owned Value descriptor not yet
\* bound, of an owned ValueList descriptor, or of a string generic descriptor,
\* and a token follows, that token is stored verbatim as the option's value
\* whatever its shape (an option token that names a registered descriptor
\* included); no other descriptor changes, so the descriptor the value token
\* names is not triggered by it.
C22_BindsNextToken ==
  [][ (pc = "loop" /\ input_iter + 2 <= Len(input) /\ IsOptionToken(Word)) =>
        LET t == Named(Word)[1]
            k == Named(Word)[2]
            v == input[input_iter + 2]
        IN /\ (t = "owned" /\ arguments[k].arg_type = "Value"
                 /\ arguments[k].arg_result = None) =>
                /\ arguments' = [arguments EXCEPT ![k].arg_result = Some(ResValue(v))]
                /\ parsables' = parsables
                /\ BoundNextWord
           /\ (t = "owned" /\ arguments[k].arg_type = "ValueList") =>
                /\ arguments' =
                     [arguments EXCEPT ![k].arg_result =
                        Some(ResValueList(
                          IF arguments[k].arg_result = None THEN <<v>>
                          ELSE Append(arguments[k].arg_result[1].list, v)))]
                /\ parsables' = parsables
                /\ BoundNextWord
           /\ (t = "generic" /\ parsables[parsable_arguments[k]].handler = "string") =>
                /\ parsables' =
                     [parsables EXCEPT ![parsable_arguments[k]].values = Append(@, v)]
                /\ arguments' = arguments
                /\ BoundNextWord ]_vars

\* [-b, -a] with the owned Flag a and the owned ValueList b: "-a" is held by b
\* and the flag a was not set
C22_Witness ==
  /\ pc = "returned"
  /\ result = Ok
  /\ input = << <<"-", "b">>, <<"-", "a">> >>
  /\ Len(dispatch) = 1
  /\ \E k \in 1..Len(arguments) :
       /\ arguments[k].arg_type = "Flag"
       /\ arguments[k].short = Some("a")
       /\ arguments[k].arg_result = None
  /\ \E k \in 1..Len(arguments) :
       /\ arguments[k].arg_type = "ValueList"
       /\ arguments[k].arg_result = Some(ResValueList(<< <<"-", "a">> >>))

\* ------------------------------------------------------------------------
\* the sequence s is a prefix of the sequence t
IsPrefixOf(s, t) == Len(s) <= Len(t) /\ SubSeq(t, 1, Len(s)) = s

\* the loop is about to read an option token that names the owned descriptor k
NamesOwned(k) ==
  /\ pc = "loop"
  /\ HasNext(input, input_iter)
  /\ IsOptionToken(Word)
  /\ Named(Word) = <<"owned", k>>

\* C23: parse_args never resets the registry. Over every step of a caller that
\* parses several inputs with one registry (the start of a further call
\* included, so also from before a call to after it), the dangling sequence
\* before is a prefix of the one after, every ValueList list and every generic
\* values sequence before is a prefix of the one after, and a Flag or Value
\* that is bound stays bound to what it held; a call that names a bound Flag
\* or Value again fails with "Flag already set" / "Value already assigned".
C23_NeverResets ==
  [][ /\ IsPrefixOf(dangling_values, dangling_values')
      /\ Len(arguments) <= Len(arguments')
      /\ \A k \in 1..Len(arguments) :
           LET x == arguments[k]
               y == arguments'[k]
           IN /\ y.arg_type = x.arg_type
              /\ x.arg_result # None =>
                   /\ y.arg_result # None
                   /\ x.arg_type \in {"Flag", "Value"} => y.arg_result = x.arg_result
                   /\ x.arg_type = "ValueList" =>
                        IsPrefixOf(x.arg_result[1].list, y.arg_result[1].list)
              /\ (NamesOwned(k) /\ x.arg_result # None /\ x.arg_type = "Flag") =>
                   pc' = "returned" /\ result' = Err("Flag already set")
              /\ (NamesOwned(k) /\ x.arg_result # None /\ x.arg_type = "Value") =>
                   pc' = "returned" /\ result' = Err("Value already assigned")
      /\ \A o \in ParsableObjects : IsPrefixOf(parsables[o].values, parsables'[o].values)
    ]_vars

\* a first call [1, -a] left the dangling value "1" and set the flag a; a
\* second call [-a] named the flag again and failed, the dangling value kept
C23_Witness ==
  /\ pc = "returned"
  /\ result = Err("Flag already set")
  /\ spent = 3
  /\ input = << <<"-", "a">> >>
  /\ Len(dispatch) = 1
  /\ dangling_values = << <<"1">> >>
  /\ \E k \in 1..Len(arguments) :
       arguments[k].arg_type = "Flag" /\ arguments[k].arg_result = Some(ResFlag)

====
